---- MODULE Spec2Model ----
(***************************************************************************)
(* Restaurant discovery agent: the per-turn workflow (cache check, agent    *)
(* loop with tool dispatch, cache write, transcript save), the tool-based   *)
(* cache TTL policy, the semantic cache gateway as the chat repository uses *)
(* it, and the reservation service the tools and the routes call.           *)
(***************************************************************************)
EXTENDS Integers, Sequences, FiniteSets, TLC

(* ------------------------------ bounds --------------------------------- *)
\* turns started in one behaviour
MaxTurns == 2
\* tool calls the model requests in one behaviour of the workflow specification
MaxToolCalls == 2
\* reservations created in one behaviour
MaxReservations == 2
\* the clock runs from 0 to MaxNow (hours)
MaxNow == 3
\* length of the lists the TTL policy is applied to in SpecTTL
MaxListLen == 3
\* tool calls the model requests in one behaviour of the loop specification SpecLoop
MaxLoopCalls == 10
\* the iteration cap the loop is claimed to have (the design's example value)
LoopCap == 8

(* ------------------------------ domains -------------------------------- *)
Sessions == {"alice", "bob"}
Queries == {"q1", "q2"}
Answers == {"a1"}
Slots == {"t1"}

\* restaurantTools, src/unnamed/part_005:481-489
RegisteredTools ==
    {"semantic_search_restaurants", "get_restaurant_details",
     "get_popular_restaurants", "make_reservation", "get_user_reservations",
     "cancel_reservation", "direct_answer"}
\* a tool the file defines but does not register (part_005:153-210), standing for
\* any name the model may emit that restaurantTools.find does not find
UnregisteredTools == {"find_nearby_restaurants"}
ToolNames == RegisteredTools \cup UnregisteredTools

\* the restaurants the index holds, and an id it does not hold
RestaurantIds == {"r1"}
MissingRestaurant == "r_none"
\* reservation start times (hours on the model clock) a caller may ask for
ResTimes == {1, 5}
\* the start times the model asks for in the workflow specification
WorkflowResTimes == {5}

NoValue == "undefined"
AgentApology == "apology_agent"
FallbackApology == "apology_fallback"

(* --------------------------- TTL policy -------------------------------- *)
includes(list, x) == \E i \in 1..Len(list) : list[i] = x

personalTools == {"make_reservation", "get_user_reservations", "cancel_reservation"}
staticTools == {"get_popular_restaurants", "direct_answer"}
searchTools == {"semantic_search_restaurants"}
detailTools == {"get_restaurant_details"}

TTL7d == 7 * 24 * 60 * 60 * 1000
TTL24h == 24 * 60 * 60 * 1000
TTL6h == 6 * 60 * 60 * 1000
TTL12h == 12 * 60 * 60 * 1000

\* a slip: the search rung of the ladder is tested before the static rung
determineToolBasedCacheTTL_order(toolsUsed) ==
    IF \E tool \in personalTools : includes(toolsUsed, tool) THEN 0
    ELSE IF \E tool \in searchTools : includes(toolsUsed, tool) THEN TTL24h
    ELSE IF \E tool \in staticTools : includes(toolsUsed, tool) THEN TTL7d
    ELSE IF \E tool \in detailTools : includes(toolsUsed, tool) THEN TTL6h
    ELSE TTL12h

\* a slip: only the first tool of the list decides
determineToolBasedCacheTTL_first(toolsUsed) ==
    IF toolsUsed = <<>> THEN TTL12h
    ELSE IF Head(toolsUsed) \in personalTools THEN 0
    ELSE IF Head(toolsUsed) \in staticTools THEN TTL7d
    ELSE IF Head(toolsUsed) \in searchTools THEN TTL24h
    ELSE IF Head(toolsUsed) \in detailTools THEN TTL6h
    ELSE TTL12h

\* a slip: cancel_reservation left out of the personal tools
determineToolBasedCacheTTL_mut(toolsUsed) ==
    IF \E tool \in personalTools \ {"cancel_reservation"} : includes(toolsUsed, tool) THEN 0
    ELSE IF \E tool \in staticTools : includes(toolsUsed, tool) THEN TTL7d
    ELSE IF \E tool \in searchTools : includes(toolsUsed, tool) THEN TTL24h
    ELSE IF \E tool \in detailTools : includes(toolsUsed, tool) THEN TTL6h
    ELSE TTL12h

determineToolBasedCacheTTL(toolsUsed) ==
    IF \E tool \in personalTools : includes(toolsUsed, tool) THEN 0
    ELSE IF \E tool \in staticTools : includes(toolsUsed, tool) THEN TTL7d
    ELSE IF \E tool \in searchTools : includes(toolsUsed, tool) THEN TTL24h
    ELSE IF \E tool \in detailTools : includes(toolsUsed, tool) THEN TTL6h
    ELSE TTL12h

(* ------------------------------ state ---------------------------------- *)
VARIABLES
    users,          \* session store: users:<sessionId> -> NoUser or the record with its chat
    cache,          \* semantic cache: the set of live entries
    reservations,   \* reservations:<id> -> hash, as a function over the ids created
    sessionIndex,   \* users:<sessionId>:reservations -> set of reservation ids
    resCreated,     \* reservation ids generated so far
    lastOp,         \* the last reservation-service call: what was asked and how it ended
    cancels,        \* SpecCancel: the cancel requests in flight, step by step
    now,            \* the clock, in hours
    turn,           \* per request slot: the state of the turn in progress
    turnsStarted,   \* turns started so far
    toolCallsTotal, \* tool calls requested so far, over all turns
    ttlList,        \* SpecTTL: the toolsUsed list under test
    ttlOut,         \* SpecTTL: what determineToolBasedCacheTTL returned for it
    restaurantIndex,\* SpecSearch: the documents of the retrieval index, in index order
    searchArgs,     \* SpecSearch: the arguments of the search under test
    searchResult    \* SpecSearch: what semantic_search_restaurants returned for them

vars == <<users, cache, reservations, sessionIndex, resCreated, lastOp, cancels, now, turn,
          turnsStarted, toolCallsTotal, ttlList, ttlOut, restaurantIndex, searchArgs,
          searchResult>>
storeVars == <<users, cache, reservations, sessionIndex, resCreated, lastOp, cancels, now>>
resVars == <<reservations, sessionIndex, resCreated, lastOp, cancels>>
ttlVars == <<ttlList, ttlOut>>
searchVars == <<restaurantIndex, searchArgs, searchResult>>
counters == <<turnsStarted, toolCallsTotal>>

NoUser == [exists |-> FALSE, chat |-> <<>>]
NoRes == [sessionId |-> "none", restaurantId |-> "none", time |-> 0, status |-> "absent",
          customerName |-> "none", guests |-> "none"]
ResIds == 1..MaxReservations
NoOp == [op |-> "none", by |-> NoValue, id |-> 0, restaurantId |-> NoValue,
         was |-> "absent", hours |-> 0, error |-> "none", changed |-> FALSE]

\* the cancel requests that may be in flight at once
CancelReqs == {"c1", "c2"}
IdleCancel ==
    [pc |-> "idle", id |-> 0,
     wasConfirmed |-> FALSE,    \* the reservation was confirmed when the request came
     copy |-> NoRes,            \* the record updateReservationStatus read
     outcome |-> NoValue]       \* "none" or the error code thrown

IdleTurn ==
    [pc |-> "idle", sessionId |-> NoValue, message |-> NoValue,
     useSmartRecall |-> FALSE,  \* the flag of the request
     cacheStatus |-> NoValue, result |-> NoValue,
     toolsUsed |-> <<>>,        \* state.toolsUsed (<<>> while undefined)
     loopTools |-> <<>>,        \* the loop's local toolsUsed
     pending |-> <<>>,          \* tool calls of the current model response, not yet run
     pendingIds |-> <<>>,       \* the ids of those calls
     requested |-> <<>>,        \* every tool name the model asked for, in order; the id
                                \* of a call is its position here
     answered |-> <<>>,         \* tool_call_id of the tool messages pushed, in order
     llmCalls |-> 0, storeCalls |-> 0,
     toolFailed |-> FALSE,      \* some tool result had success=false
     passedSessionId |-> NoValue, \* toolArgs.sessionId of the last reservation tool run
     listed |-> {},             \* ids returned by the turn's last get_user_reservations
     lookupThrew |-> FALSE,     \* the cache lookup of the turn threw
     storedAtCheck |-> FALSE,   \* an entry for the turn's text was stored when it looked
     modelThrew |-> FALSE,      \* a model invocation of the turn threw
     toolThrew |-> FALSE,       \* a tool.invoke of the turn threw
     storeThrew |-> FALSE,      \* the cache store call of the turn threw
     agentAnswer |-> NoValue,   \* the result the agent node returned
     failedAt |-> NoValue,      \* where the throw caught by the workflow's catch came from
     hitFrom |-> NoValue,       \* the sessionId attribute of the entry a hit returned
     appended |-> <<>>,         \* roles this turn appended to the transcript, in order
     userAt |-> 0,              \* index in the transcript of the turn's user message
     asstAt |-> 0,              \* index in the transcript of its assistant message
     savedContent |-> NoValue,  \* content of the assistant message this turn appended
     workflowDone |-> FALSE,
     outcome |-> "running",     \* "ok" | "failed" (the catch of runRestaurantAgentWorkflow)
     reply |-> [content |-> NoValue, isCachedResponse |-> FALSE]]

\* semantic_search_restaurants not yet called
NoSearchArgs ==
    [query |-> FALSE, useSemanticSearch |-> FALSE, latitude |-> FALSE,
     longitude |-> FALSE, cuisine |-> NoValue, city |-> NoValue,
     locality |-> NoValue, type |-> NoValue, maxPrice |-> NoValue,
     minRating |-> NoValue, limit |-> NoValue]
NoSearchResult ==
    [called |-> FALSE, success |-> FALSE, restaurants |-> <<>>,
     searchStrategy |-> NoValue, firstStep |-> NoValue, retried |-> FALSE,
     fellBack |-> FALSE, threw |-> FALSE]
SearchIdle ==
    /\ searchArgs = NoSearchArgs
    /\ searchResult = NoSearchResult

InitStores ==
    /\ users = [s \in Sessions |-> NoUser]
    /\ cache = {}
    /\ reservations = [id \in ResIds |-> NoRes]
    /\ cancels = [c \in CancelReqs |-> IdleCancel]
    /\ sessionIndex = [s \in Sessions |-> {}]
    /\ resCreated = 0
    /\ lastOp = NoOp
    /\ now = 0
    /\ turn = [t \in Slots |-> IdleTurn]
    /\ turnsStarted = 0
    /\ toolCallsTotal = 0
    /\ ttlOut = -1

Init ==
    /\ InitStores
    /\ ttlList = <<>>
    /\ restaurantIndex = <<>>
    /\ SearchIdle


(* ---------------------- semantic cache gateway ------------------------- *)
\* The clock horizon (MaxNow hours) is shorter than the shortest TTL (6 hours), so
\* no entry expires inside a behaviour: every stored entry is live.
NoScope == "no_scope"
NoEntry == [prompt |-> NoValue, response |-> NoValue, ttlMillis |-> 0,
            sessionId |-> NoValue, personal |-> FALSE, failed |-> FALSE]

\* findFromSemanticCache attaches attributes only when a sessionId is passed; the
\* gateway then considers only the entries written with that attribute.
Eligible(scope) ==
    IF scope = NoScope THEN cache ELSE {e \in cache : e.sessionId = scope}

\* a slip: an identical prompt is not preferred, and may be judged not similar enough
findFromSemanticCache_mut(query, scope) == Eligible(scope) \cup {NoEntry}

\* langCache.search with [Exact, Semantic]: an exact prompt match wins; otherwise the
\* gateway may judge any eligible entry similar enough, or none. data[0] or null.
findFromSemanticCache(query, scope) ==
    LET exact == {e \in Eligible(scope) : e.prompt = query}
    IN IF exact # {} THEN exact ELSE Eligible(scope) \cup {NoEntry}

\* checkSemanticCache(userQuery): queryCacheCheck passes no sessionId
checkSemanticCache(query) == findFromSemanticCache(query, NoScope)

\* langCache.set with attributes {sessionId}; personal/failed record what the storing
\* turn did (history variables of the entry)
saveResponseInSemanticCache(query, response, ttlMillis, sessionId, personal, failed) ==
    cache \cup {[prompt |-> query, response |-> response, ttlMillis |-> ttlMillis,
                 sessionId |-> sessionId, personal |-> personal, failed |-> failed]}

(* --------------------------- the workflow ------------------------------ *)
Set(t, r) == turn' = [turn EXCEPT ![t] = r]

\* a slip: the throw leaves runRestaurantAgentWorkflow uncaught
Fallback_mut(r) == [r EXCEPT !.pc = "thrown", !.outcome = "failed", !.failedAt = r.pc]

\* the catch of runRestaurantAgentWorkflow (index.js:141-149)
Fallback(r) ==
    [r EXCEPT !.pc = "done", !.outcome = "failed", !.failedAt = r.pc,
              !.reply = [content |-> FallbackApology, isCachedResponse |-> FALSE]]

\* POST /chat with a message and a sessionId (chat-routes.js:13-34)
StartTurnWith(t, flags) ==
    /\ turn[t].pc = "idle"
    /\ turnsStarted < MaxTurns
    /\ \E s \in Sessions, q \in Queries, useSmartRecall \in flags :
         Set(t, [IdleTurn EXCEPT !.pc = "history", !.sessionId = s, !.message = q,
                                 !.useSmartRecall = useSmartRecall])
    /\ turnsStarted' = turnsStarted + 1
    /\ UNCHANGED <<storeVars, toolCallsTotal, ttlVars, searchVars>>

\* a request without the flag: useSmartRecall || false (chat-routes.js:33)
StartTurn(t) == StartTurnWith(t, {FALSE})

\* getOrCreateChatHistory, the read (chat-repository.js:33-39)
HistoryRead(t) ==
    /\ turn[t].pc = "history"
    /\ Set(t, [turn[t] EXCEPT !.pc =
            IF users[turn[t].sessionId] = NoUser THEN "create" ELSE "cache"])
    /\ UNCHANGED <<storeVars, counters, ttlVars, searchVars>>

\* getOrCreateChatHistory, the json.set of a fresh record (chat-repository.js:39-59)
HistoryCreate(t) ==
    /\ turn[t].pc = "create"
    /\ users' = [users EXCEPT ![turn[t].sessionId] = [exists |-> TRUE, chat |-> <<>>]]
    /\ Set(t, [turn[t] EXCEPT !.pc = "cache"])
    /\ UNCHANGED <<cache, resVars, now, counters, ttlVars, searchVars>>

\* the session store throws while the history is read
HistoryFails(t) ==
    /\ turn[t].pc \in {"history", "create"}
    /\ Set(t, Fallback(turn[t]))
    /\ UNCHANGED <<storeVars, counters, ttlVars, searchVars>>

\* the conditional edge after query_cache_check (index.js:29-31)
RouteAfterCacheCheck_mut(cacheStatus) == "agent"

RouteAfterCacheCheck(cacheStatus) ==
    IF cacheStatus = "hit" THEN "save_user" ELSE "agent"

\* an entry stored for exactly this text is in the cache
StoredFor(query) == \E e \in cache : e.prompt = query

\* queryCacheCheck (nodes.js:12-44)
QueryCacheCheck(t) ==
    /\ turn[t].pc = "cache"
    /\ \E e \in checkSemanticCache(turn[t].message) :
         IF e # NoEntry
         THEN Set(t, [turn[t] EXCEPT !.cacheStatus = "hit", !.result = e.response,
                         !.hitFrom = e.sessionId,
                         !.storedAtCheck = StoredFor(turn[t].message),
                         !.workflowDone = (RouteAfterCacheCheck("hit") = "save_user"),
                         !.pc = RouteAfterCacheCheck("hit")])
         ELSE Set(t, [turn[t] EXCEPT !.cacheStatus = "miss",
                         !.storedAtCheck = StoredFor(turn[t].message),
                         !.pc = RouteAfterCacheCheck("miss")])
    /\ UNCHANGED <<storeVars, counters, ttlVars, searchVars>>

\* a slip: the throw of the cache gateway leaves the node
QueryCacheCheckFails_mut(t) ==
    /\ turn[t].pc = "cache"
    /\ Set(t, Fallback([turn[t] EXCEPT !.lookupThrew = TRUE]))
    /\ UNCHANGED <<storeVars, counters, ttlVars, searchVars>>

\* the cache gateway throws: the catch reports a miss (nodes.js:37-43)
QueryCacheCheckFails(t) ==
    /\ turn[t].pc = "cache"
    /\ Set(t, [turn[t] EXCEPT !.cacheStatus = "miss", !.lookupThrew = TRUE,
                              !.storedAtCheck = StoredFor(turn[t].message),
                              !.pc = RouteAfterCacheCheck("miss")])
    /\ UNCHANGED <<storeVars, counters, ttlVars, searchVars>>


(* ------------------------ reservation service -------------------------- *)
Outcome(err, res, idx, created) ==
    [error |-> err, reservations |-> res, sessionIndex |-> idx, resCreated |-> created]

Rejected(err) == Outcome(err, reservations, sessionIndex, resCreated)

\* RestaurantService.getRestaurantById throws RESTAURANT_NOT_FOUND for an id the
\* index does not hold (restaurant-service.js:19-39)
restaurantExists(restaurantId) == restaurantId \in RestaurantIds

\* the guests strings a request may carry: a usual count, zero, a count above 20,
\* and a text that is not a number
GuestStrings == {"2", "0", "25", "abc"}
UsualGuests == {"2"}

\* parseInt(guests) (reservation-routes.js:34, part_005:305) of these strings: the
\* number, or NaN
NaN == [nan |-> TRUE]
parseIntGuests(guests) ==
    IF guests = "2" THEN [nan |-> FALSE, value |-> 2]
    ELSE IF guests = "0" THEN [nan |-> FALSE, value |-> 0]
    ELSE IF guests = "25" THEN [nan |-> FALSE, value |-> 25]
    ELSE NaN

\* String(value) of a number, as the repository stores it
\* (reservation-repository.js:38-42)
String(number) == IF number = NaN THEN "NaN" ELSE ToString(number.value)

\* the names a caller may put in the customerName field of its request
SuppliedNames == {NoValue, "Mallory"}

\* the profile name getOrCreateChatHistory writes into a new session record
\* (chat-repository.js:41): the sessionId with its first letter in upper case
capitalizedName(sessionId) == IF sessionId = "alice" THEN "Alice" ELSE "Bob"

\* UserService.getUserContactDetails (restaurant-service.js:512-524): the contact
\* fields of the profile, or null when the session has no record
NoContact == [found |-> FALSE, name |-> NoValue]
getUserContactDetails(sessionId) ==
    IF users[sessionId] = NoUser THEN NoContact
    ELSE [found |-> TRUE, name |-> capitalizedName(sessionId)]

\* a slip: a customerName in the request is taken over the profile's
createReservation_mut(sessionId, restaurantId, time, customerName, guests) ==
    IF getUserContactDetails(sessionId) = NoContact THEN Rejected("TypeError")
    ELSE LET id == resCreated + 1
             stored == [reservations EXCEPT ![id] =
                           [sessionId |-> sessionId, restaurantId |-> restaurantId,
                            time |-> time, status |-> "confirmed",
                            guests |-> String(guests),
                            customerName |-> IF customerName # NoValue THEN customerName
                                             ELSE getUserContactDetails(sessionId).name]]
             indexed == [sessionIndex EXCEPT ![sessionId] = @ \cup {id}]
         IN Outcome(IF restaurantExists(restaurantId) THEN "none"
                    ELSE "RESTAURANT_NOT_FOUND",
                    stored, indexed, id)

\* ReservationService.createReservation (reservation-routes.js:146-188) with
\* ReservationRepository.createReservation (reservation-repository.js:25-59):
\* the contact details come from the profile (a TypeError when there is none), the
\* reservation is persisted, and only then is the restaurant looked up.
createReservation(sessionId, restaurantId, time, customerName, guests) ==
    IF getUserContactDetails(sessionId) = NoContact THEN Rejected("TypeError")
    ELSE LET id == resCreated + 1
             stored == [reservations EXCEPT ![id] =
                           [sessionId |-> sessionId, restaurantId |-> restaurantId,
                            time |-> time, status |-> "confirmed",
                            guests |-> String(guests),
                            customerName |-> getUserContactDetails(sessionId).name]]
             indexed == [sessionIndex EXCEPT ![sessionId] = @ \cup {id}]
         IN Outcome(IF restaurantExists(restaurantId) THEN "none"
                    ELSE "RESTAURANT_NOT_FOUND",
                    stored, indexed, id)

\* ReservationService.getReservationById (reservation-routes.js:195-228): "none" or
\* the error it throws
getReservationById(reservationId) ==
    IF reservations[reservationId] = NoRes THEN "RESERVATION_NOT_FOUND"
    ELSE IF ~restaurantExists(reservations[reservationId].restaurantId)
         THEN "RESTAURANT_NOT_FOUND"
    ELSE "none"

\* the hours between the clock and the reservation's start (reservation-routes.js:330-332)
hoursUntilReservation(reservation) == reservation.time - now

\* ReservationService.cancelReservation, first definition (reservation-routes.js:284-354)
cancelReservationFirst(reservationId, sessionId) ==
    LET reservation == reservations[reservationId] IN
    IF reservation = NoRes THEN Rejected("RESERVATION_NOT_FOUND")
    ELSE IF reservation.sessionId # sessionId THEN Rejected("UNAUTHORIZED_CANCELLATION")
    ELSE IF reservation.status = "cancelled" THEN Rejected("ALREADY_CANCELLED")
    ELSE IF reservation.status = "completed" THEN Rejected("CANNOT_CANCEL_COMPLETED")
    ELSE IF hoursUntilReservation(reservation) < 2 THEN Rejected("CANCELLATION_TOO_LATE")
    ELSE Outcome("none", [reservations EXCEPT ![reservationId].status = "cancelled"],
                 sessionIndex, resCreated)

\* a slip: the already-cancelled check is left out
cancelReservationSecond_mut(reservationId) ==
    IF getReservationById(reservationId) # "none"
    THEN Rejected(getReservationById(reservationId))
    ELSE Outcome("none", [reservations EXCEPT ![reservationId].status = "cancelled"],
                 sessionIndex, resCreated)

\* ReservationService.cancelReservation, second definition (reservation-routes.js:361-384)
\* with ReservationRepository.updateReservationStatus (reservation-repository.js:151-189)
cancelReservationSecond(reservationId) ==
    IF getReservationById(reservationId) # "none"
    THEN Rejected(getReservationById(reservationId))
    ELSE IF reservations[reservationId].status = "cancelled"
    THEN Rejected("ALREADY_CANCELLED")
    ELSE Outcome("none", [reservations EXCEPT ![reservationId].status = "cancelled"],
                 sessionIndex, resCreated)

\* What a call of reservationService.cancelReservation(reservationId, sessionId) runs:
\* the class body defines the method twice and the later definition replaces the
\* earlier one, so the sessionId argument is dropped.
cancelReservation(reservationId, sessionId) == cancelReservationSecond(reservationId)

\* run a service call: its effect on the store, and the record of the call
Apply(o, op, by, id, restaurantId) ==
    /\ reservations' = o.reservations
    /\ sessionIndex' = o.sessionIndex
    /\ resCreated' = o.resCreated
    /\ UNCHANGED cancels
    /\ lastOp' = [op |-> op, by |-> by, id |-> id, restaurantId |-> restaurantId,
                  was |-> reservations[id].status,
                  hours |-> hoursUntilReservation(reservations[id]),
                  error |-> o.error,
                  changed |-> (o.reservations # reservations
                               \/ o.sessionIndex # sessionIndex)]

(* --------------------------- the agent loop ---------------------------- *)
SeqsUpTo(S, n) == UNION {[1..k -> S] : k \in 1..n}

\* a slip: the catch returns the tools that ran instead of the error marker
AgentError_mut(r) ==
    [r EXCEPT !.result = AgentApology,
              !.toolsUsed = IF r.loopTools # <<>> THEN r.loopTools ELSE <<"none">>,
              !.agentAnswer = AgentApology, !.pending = <<>>, !.pendingIds = <<>>,
              !.pc = "write"]

\* the catch of restaurantDiscoveryAgent (nodes.js:228-236)
AgentError(r) ==
    [r EXCEPT !.result = AgentApology, !.toolsUsed = <<"error">>,
              !.agentAnswer = AgentApology, !.pending = <<>>, !.pendingIds = <<>>,
              !.pc = "write"]

\* new ChatOpenAI / bindTools run outside the node's try (nodes.js:52-60, 157): a
\* throw there leaves the graph and reaches the catch of runRestaurantAgentWorkflow
AgentSetupFails(t) ==
    /\ turn[t].pc = "agent"
    /\ turn[t].llmCalls = 0
    /\ Set(t, Fallback(turn[t]))
    /\ UNCHANGED <<storeVars, counters, ttlVars, searchVars>>

\* modelWithTools.invoke (nodes.js:168-181): a final text, a list of tool calls, or
\* a throw. names and maxCalls bound what the model may ask for in one turn.
ModelInvoke(t, names, maxCalls) ==
    /\ turn[t].pc = "agent"
    /\ LET r == [turn[t] EXCEPT !.llmCalls = @ + 1] IN
       \/ /\ \E a \in Answers :
               Set(t, [r EXCEPT !.result = a, !.agentAnswer = a,
                                !.toolsUsed = IF r.loopTools # <<>> THEN r.loopTools
                                              ELSE <<"none">>,
                                !.pc = "write"])
          /\ UNCHANGED toolCallsTotal
       \/ \E calls \in SeqsUpTo(names, maxCalls - toolCallsTotal) :
            /\ Set(t, [r EXCEPT !.pending = calls,
                                !.pendingIds = [i \in 1..Len(calls) |->
                                                  Len(r.requested) + i],
                                !.requested = @ \o calls,
                                !.pc = "tool"])
            /\ toolCallsTotal' = toolCallsTotal + Len(calls)
       \/ /\ Set(t, AgentError([r EXCEPT !.modelThrew = TRUE]))
          /\ UNCHANGED toolCallsTotal
    /\ UNCHANGED <<storeVars, turnsStarted, ttlVars, searchVars>>

\* a slip: the name is put in front of toolsUsed
AfterTool_mut(r, failed) ==
    [r EXCEPT !.loopTools = <<Head(r.pending)>> \o @,
              !.toolFailed = @ \/ failed,
              !.answered = Append(@, Head(r.pendingIds)),
              !.pending = Tail(@),
              !.pendingIds = Tail(@),
              !.pc = IF Tail(r.pending) = <<>> THEN "agent" ELSE "tool"]

\* a slip: a tool result with success=false ends the loop in the agent's catch
AfterTool_fatal(r, failed) ==
    IF failed THEN AgentError([r EXCEPT !.toolFailed = TRUE])
    ELSE [r EXCEPT !.loopTools = Append(@, Head(r.pending)),
                   !.answered = Append(@, Head(r.pendingIds)),
                   !.pending = Tail(@),
                   !.pendingIds = Tail(@),
                   !.pc = IF Tail(r.pending) = <<>> THEN "agent" ELSE "tool"]

\* after one tool call (nodes.js:187, 220-224): its name is on toolsUsed and its
\* result is pushed as a tool message; then the next call of the response, or the
\* model again
AfterTool(r, failed) ==
    [r EXCEPT !.loopTools = Append(@, Head(r.pending)),
              !.toolFailed = @ \/ failed,
              !.answered = Append(@, Head(r.pendingIds)),
              !.pending = Tail(@),
              !.pendingIds = Tail(@),
              !.pc = IF Tail(r.pending) = <<>> THEN "agent" ELSE "tool"]

\* a slip: the model-supplied sessionId is passed through
toolSessionId_mut(name, turnSession, modelSession) == modelSession

\* the sessionId a tool receives (nodes.js:194-197): the turn's for make_reservation
\* and get_user_reservations, whatever the model supplied
toolSessionId(name, turnSession, modelSession) ==
    IF name \in {"make_reservation", "get_user_reservations"} THEN turnSession
    ELSE modelSession

\* the name is not in restaurantTools: the error result (nodes.js:212-218)
ExecUnknownTool(t) ==
    /\ turn[t].pc = "tool"
    /\ Head(turn[t].pending) \notin RegisteredTools
    /\ Set(t, AfterTool(turn[t], TRUE))
    /\ UNCHANGED <<storeVars, counters, ttlVars, searchVars>>

\* semantic_search_restaurants, get_restaurant_details, get_popular_restaurants and
\* direct_answer: a success=true result, or the success=false result of their catch
\* (part_005:120-127, 273-280, 235-242, 461-467)
ExecLookupTool(t) ==
    /\ turn[t].pc = "tool"
    /\ Head(turn[t].pending) \in
         {"semantic_search_restaurants", "get_restaurant_details",
          "get_popular_restaurants", "direct_answer"}
    /\ \E ok \in BOOLEAN : Set(t, AfterTool(turn[t], ~ok))
    /\ UNCHANGED <<storeVars, counters, ttlVars, searchVars>>

\* make_reservation (part_005:295-325)
ExecMakeReservation(t) ==
    /\ turn[t].pc = "tool"
    /\ Head(turn[t].pending) = "make_reservation"
    /\ resCreated < MaxReservations
    /\ \E rid \in RestaurantIds \cup {MissingRestaurant}, time \in WorkflowResTimes,
          modelSession \in Sessions, customerName \in SuppliedNames,
          guests \in UsualGuests :
         LET sessionId == toolSessionId("make_reservation", turn[t].sessionId,
                                        modelSession)
             o == createReservation(sessionId, rid, time, customerName,
                                    parseIntGuests(guests))
         IN /\ Apply(o, "create", turn[t].sessionId, resCreated + 1, rid)
            /\ Set(t, [AfterTool(turn[t], o.error # "none")
                         EXCEPT !.passedSessionId = sessionId])
    /\ UNCHANGED <<users, cache, now, counters, ttlVars, searchVars>>

\* getReservationsBySession (reservation-repository.js:109-143): the stored
\* reservations whose id is in users:<sessionId>:reservations
getReservationsBySession(sessionId) ==
    {id \in sessionIndex[sessionId] : reservations[id] # NoRes}

\* get_user_reservations (part_005:344-377): reads only
ExecGetUserReservations(t) ==
    /\ turn[t].pc = "tool"
    /\ Head(turn[t].pending) = "get_user_reservations"
    /\ \E modelSession \in Sessions :
         LET sessionId == toolSessionId("get_user_reservations", turn[t].sessionId,
                                        modelSession)
         IN Set(t, [AfterTool(turn[t], FALSE)
                      EXCEPT !.passedSessionId = sessionId,
                             !.listed = getReservationsBySession(sessionId)])
    /\ UNCHANGED <<storeVars, counters, ttlVars, searchVars>>

\* cancel_reservation (part_005:391-414): the tool calls cancelReservation(reservationId)
ExecCancelReservation(t) ==
    /\ turn[t].pc = "tool"
    /\ Head(turn[t].pending) = "cancel_reservation"
    /\ \E id \in ResIds :
         LET o == cancelReservation(id, NoValue)
         IN /\ Apply(o, "cancel", turn[t].sessionId, id, NoValue)
            /\ Set(t, AfterTool(turn[t], o.error # "none"))
    /\ UNCHANGED <<users, cache, now, counters, ttlVars, searchVars>>

\* tool.invoke rejects the arguments (schema validation) and throws: the agent's catch
ExecToolThrows(t) ==
    /\ turn[t].pc = "tool"
    /\ Head(turn[t].pending) \in RegisteredTools
    /\ Set(t, AgentError([turn[t] EXCEPT !.toolThrew = TRUE]))
    /\ UNCHANGED <<storeVars, counters, ttlVars, searchVars>>


(* ---------------------------- cache write ------------------------------ *)
\* a slip: a turn skipped for its TTL of 0 is reported as saved
ProcessWorkOutputWithCaching_mut(t) ==
    /\ turn[t].pc = "write"
    /\ LET r == [turn[t] EXCEPT !.pc = "save_user", !.workflowDone = TRUE]
           cacheTTL == determineToolBasedCacheTTL(r.toolsUsed)
       IN IF includes(r.toolsUsed, "error")
          THEN /\ Set(t, [r EXCEPT !.cacheStatus = "skip"])
               /\ UNCHANGED cache
          ELSE IF cacheTTL = 0
          THEN /\ Set(t, [r EXCEPT !.cacheStatus = "saved"])
               /\ UNCHANGED cache
          ELSE /\ cache' = saveResponseInSemanticCache(
                              r.message, r.result, cacheTTL, r.sessionId,
                              \E i \in 1..Len(r.loopTools) : r.loopTools[i] \in personalTools,
                              r.toolFailed)
               /\ Set(t, [r EXCEPT !.cacheStatus = "saved", !.storeCalls = @ + 1])
    /\ UNCHANGED <<users, resVars, now, counters, ttlVars, searchVars>>

\* processWorkOutputWithCaching (nodes.js:244-288): skip on the "error" marker, skip
\* on a TTL of 0, otherwise store and report saved
ProcessWorkOutputWithCaching(t) ==
    /\ turn[t].pc = "write"
    /\ LET r == [turn[t] EXCEPT !.pc = "save_user", !.workflowDone = TRUE]
           cacheTTL == determineToolBasedCacheTTL(r.toolsUsed)
       IN IF includes(r.toolsUsed, "error")
          THEN /\ Set(t, [r EXCEPT !.cacheStatus = "skip"])
               /\ UNCHANGED cache
          ELSE IF cacheTTL = 0
          THEN /\ Set(t, [r EXCEPT !.cacheStatus = "skip"])
               /\ UNCHANGED cache
          ELSE /\ cache' = saveResponseInSemanticCache(
                              r.message, r.result, cacheTTL, r.sessionId,
                              \E i \in 1..Len(r.loopTools) : r.loopTools[i] \in personalTools,
                              r.toolFailed)
               /\ Set(t, [r EXCEPT !.cacheStatus = "saved", !.storeCalls = @ + 1])
    /\ UNCHANGED <<users, resVars, now, counters, ttlVars, searchVars>>

\* a slip: the throw of the cache store leaves the node
CacheStoreFails_mut(t) ==
    /\ turn[t].pc = "write"
    /\ ~includes(turn[t].toolsUsed, "error")
    /\ determineToolBasedCacheTTL(turn[t].toolsUsed) # 0
    /\ Set(t, Fallback([turn[t] EXCEPT !.storeThrew = TRUE, !.storeCalls = @ + 1]))
    /\ UNCHANGED <<storeVars, counters, ttlVars, searchVars>>

\* saveToSemanticCache throws: the catch reports error and keeps the result
\* (nodes.js:290-301)
CacheStoreFails(t) ==
    /\ turn[t].pc = "write"
    /\ ~includes(turn[t].toolsUsed, "error")
    /\ determineToolBasedCacheTTL(turn[t].toolsUsed) # 0
    /\ Set(t, [turn[t] EXCEPT !.pc = "save_user", !.workflowDone = TRUE,
                              !.cacheStatus = "error", !.storeThrew = TRUE,
                              !.storeCalls = @ + 1])
    /\ UNCHANGED <<storeVars, counters, ttlVars, searchVars>>

(* -------------------------- transcript save ---------------------------- *)
\* finalReply = result.result || result.output (index.js:121)
finalReply(r) == r.result

\* a slip: the role of the message is not carried over
saveChatMessage_mut(sessionId, role, content) ==
    [users EXCEPT ![sessionId].chat = Append(@, [role |-> "assistant", content |-> content])]

\* saveChatMessage: json.arrAppend on users:<sessionId> (chat-repository.js:74-87)
saveChatMessage(sessionId, role, content) ==
    [users EXCEPT ![sessionId].chat = Append(@, [role |-> role, content |-> content])]

\* index.js:129-132
SaveUserMessage(t) ==
    /\ turn[t].pc = "save_user"
    /\ users[turn[t].sessionId] # NoUser
    /\ users' = saveChatMessage(turn[t].sessionId, "user", turn[t].message)
    /\ Set(t, [turn[t] EXCEPT !.pc = "save_asst", !.appended = Append(@, "user"),
                               !.userAt = Len(users[turn[t].sessionId].chat) + 1])
    /\ UNCHANGED <<cache, resVars, now, counters, ttlVars, searchVars>>

\* index.js:134-139
SaveAssistantMessage(t) ==
    /\ turn[t].pc = "save_asst"
    /\ users[turn[t].sessionId] # NoUser
    /\ users' = saveChatMessage(turn[t].sessionId, "assistant", finalReply(turn[t]))
    /\ Set(t, [turn[t] EXCEPT !.pc = "done", !.outcome = "ok",
                  !.appended = Append(@, "assistant"),
                  !.asstAt = Len(users[turn[t].sessionId].chat) + 1,
                  !.savedContent = finalReply(turn[t]),
                  !.reply = [content |-> finalReply(turn[t]),
                             isCachedResponse |-> (turn[t].cacheStatus = "hit")]])
    /\ UNCHANGED <<cache, resVars, now, counters, ttlVars, searchVars>>

\* saveChatMessage throws: the record is gone (the session was ended), the append
\* failed, or the append was done and the updatedAt write after it failed
SaveMessageFails(t) ==
    /\ turn[t].pc \in {"save_user", "save_asst"}
    /\ LET role == IF turn[t].pc = "save_user" THEN "user" ELSE "assistant"
           content == IF turn[t].pc = "save_user" THEN turn[t].message
                      ELSE finalReply(turn[t])
       IN \/ /\ UNCHANGED users
             /\ Set(t, Fallback(turn[t]))
          \/ /\ users[turn[t].sessionId] # NoUser
             /\ users' = saveChatMessage(turn[t].sessionId, role, content)
             /\ Set(t, Fallback([turn[t] EXCEPT
                     !.appended = Append(@, role),
                     !.userAt = IF role = "user"
                                THEN Len(users[turn[t].sessionId].chat) + 1 ELSE @,
                     !.asstAt = IF role = "assistant"
                                THEN Len(users[turn[t].sessionId].chat) + 1 ELSE @,
                     !.savedContent = IF role = "assistant" THEN content ELSE @]))
    /\ UNCHANGED <<cache, resVars, now, counters, ttlVars, searchVars>>

\* the reply is sent (chat-routes.js:36-40) and the slot is free again
FinishTurn(t) ==
    /\ turn[t].pc = "done"
    /\ Set(t, IdleTurn)
    /\ UNCHANGED <<storeVars, counters, ttlVars, searchVars>>

\* POST /chat/end-session: deleteChats deletes users:<sessionId> (chat-repository.js:140-155)
EndSession(s) ==
    /\ users' = [users EXCEPT ![s] = NoUser]
    /\ lastOp' = [NoOp EXCEPT !.op = "end", !.by = s]
    /\ UNCHANGED <<cache, reservations, sessionIndex, resCreated, cancels, now, turn, counters,
                   ttlVars, searchVars>>

(* ------------------------- workflow specification ---------------------- *)
TurnStep(t, names, maxCalls) ==
    \/ StartTurn(t)
    \/ HistoryRead(t)
    \/ HistoryCreate(t)
    \/ HistoryFails(t)
    \/ QueryCacheCheck(t)
    \/ QueryCacheCheckFails(t)
    \/ AgentSetupFails(t)
    \/ ModelInvoke(t, names, maxCalls)
    \/ ExecUnknownTool(t)
    \/ ExecLookupTool(t)
    \/ ExecMakeReservation(t)
    \/ ExecGetUserReservations(t)
    \/ ExecCancelReservation(t)
    \/ ExecToolThrows(t)
    \/ ProcessWorkOutputWithCaching(t)
    \/ CacheStoreFails(t)
    \/ SaveUserMessage(t)
    \/ SaveAssistantMessage(t)
    \/ SaveMessageFails(t)
    \/ FinishTurn(t)

Next ==
    \E t \in Slots : TurnStep(t, ToolNames, MaxToolCalls)

Spec == Init /\ [][Next]_vars


(* --------------------- reservation routes specification ---------------- *)
\* GET /ai/chat/history (chat-routes.js:68-90): getOrCreateChatHistory creates the
\* session record, with its profile, when there is none
RouteHistory(s) ==
    /\ users[s] = NoUser
    /\ users' = [users EXCEPT ![s] = [exists |-> TRUE, chat |-> <<>>]]
    /\ UNCHANGED <<cache, resVars, now, turn, counters, ttlVars, searchVars>>

\* POST /api/reservations/book (reservation-routes.js:18-46)
RouteBook(s, rid, time, guests) ==
    /\ resCreated < MaxReservations
    /\ \E customerName \in SuppliedNames :
         Apply(createReservation(s, rid, time, customerName, parseIntGuests(guests)),
               "create", s, resCreated + 1, rid)
    /\ UNCHANGED <<users, cache, now, turn, counters, ttlVars, searchVars>>

\* PUT /api/reservations/:reservationId/cancel with a sessionId in the body
\* (reservation-routes.js:89-112)
RouteCancel(id, s) ==
    /\ Apply(cancelReservation(id, s), "cancel", s, id, NoValue)
    /\ UNCHANGED <<users, cache, now, turn, counters, ttlVars, searchVars>>

\* an hour passes
Tick ==
    /\ now < MaxNow
    /\ now' = now + 1
    /\ UNCHANGED <<users, cache, resVars, turn, counters, ttlVars, searchVars>>

NextRes ==
    \/ \E s \in Sessions : RouteHistory(s)
    \/ \E s \in Sessions, rid \in RestaurantIds \cup {MissingRestaurant}, time \in ResTimes,
          guests \in UsualGuests :
         RouteBook(s, rid, time, guests)
    \/ \E id \in ResIds, s \in Sessions : RouteCancel(id, s)
    \/ Tick

SpecRes == Init /\ [][NextRes]_vars

(* -------------------------- booking specification ---------------------- *)
\* bookings with every kind of guests string
NextBooking ==
    \/ \E s \in Sessions : RouteHistory(s)
    \/ \E s \in Sessions, rid \in RestaurantIds, time \in ResTimes, guests \in GuestStrings :
         RouteBook(s, rid, time, guests)

SpecBooking == Init /\ [][NextBooking]_vars

(* ------------------------ session end specification ------------------- *)
NextSession ==
    \/ NextRes
    \/ \E s \in Sessions : EndSession(s)

SpecSession == Init /\ [][NextSession]_vars

(* ---------------------- status lifecycle specification ----------------- *)
\* ReservationRepository.updateReservationStatus (reservation-repository.js:151-189):
\* the status field is overwritten; a missing reservation is an update error
updateReservationStatus(reservationId, status) ==
    IF reservations[reservationId] = NoRes THEN Rejected("RESERVATION_UPDATE_ERROR")
    ELSE Outcome("none", [reservations EXCEPT ![reservationId].status = status],
                 sessionIndex, resCreated)

\* a confirmed reservation is marked completed through the repository: the status
\* the repository documents (reservation-repository.js:148) and the service counts
\* and tests for (reservation-routes.js:321, 395)
MarkCompleted(id) ==
    /\ reservations[id].status = "confirmed"
    /\ Apply(updateReservationStatus(id, "completed"), "complete", NoValue, id, NoValue)
    /\ UNCHANGED <<users, cache, now, turn, counters, ttlVars, searchVars>>

\* a slip: the id stays in the session's set
deleteReservation_mut(reservationId) ==
    IF reservations[reservationId] = NoRes
    THEN Outcome("none", reservations, sessionIndex, resCreated)
    ELSE Outcome("none", [reservations EXCEPT ![reservationId] = NoRes],
                 sessionIndex, resCreated)

\* ReservationRepository.deleteReservation (reservation-repository.js:196-220):
\* false when there is no such reservation, else sRem from the set of the
\* reservation's session and del of the record
deleteReservation(reservationId) ==
    IF reservations[reservationId] = NoRes
    THEN Outcome("none", reservations, sessionIndex, resCreated)
    ELSE Outcome("none", [reservations EXCEPT ![reservationId] = NoRes],
                 [sessionIndex EXCEPT ![reservations[reservationId].sessionId] =
                                         @ \ {reservationId}],
                 resCreated)

\* the admin delete of a reservation
DeleteReservation(id) ==
    /\ Apply(deleteReservation(id), "delete", NoValue, id, NoValue)
    /\ UNCHANGED <<users, cache, now, turn, counters, ttlVars, searchVars>>

(* ------------------- a cancel request, await by await ------------------ *)
SetCancel(c, r) == cancels' = [cancels EXCEPT ![c] = r]

\* PUT /:reservationId/cancel arrives (reservation-routes.js:89-102)
StartCancel(c, id) ==
    /\ cancels[c].pc = "idle"
    /\ SetCancel(c, [IdleCancel EXCEPT !.pc = "lookup", !.id = id,
                        !.wasConfirmed = (reservations[id].status = "confirmed")])
    /\ UNCHANGED <<users, cache, reservations, sessionIndex, resCreated, lastOp, now,
                   turn, counters, ttlVars, searchVars>>

\* await this.getReservationById and the test of the status it returned
\* (reservation-routes.js:363-372)
CancelLookup(c) ==
    /\ cancels[c].pc = "lookup"
    /\ SetCancel(c, IF getReservationById(cancels[c].id) # "none"
                    THEN [cancels[c] EXCEPT !.pc = "done",
                                            !.outcome = getReservationById(cancels[c].id)]
                    ELSE IF reservations[cancels[c].id].status = "cancelled"
                    THEN [cancels[c] EXCEPT !.pc = "done", !.outcome = "ALREADY_CANCELLED"]
                    ELSE [cancels[c] EXCEPT !.pc = "update"])
    /\ UNCHANGED <<users, cache, reservations, sessionIndex, resCreated, lastOp, now,
                   turn, counters, ttlVars, searchVars>>

\* updateReservationStatus, its own read of the record (reservation-repository.js:153-161)
CancelUpdateRead(c) ==
    /\ cancels[c].pc = "update"
    /\ SetCancel(c, IF reservations[cancels[c].id] = NoRes
                    THEN [cancels[c] EXCEPT !.pc = "done",
                                            !.outcome = "RESERVATION_UPDATE_ERROR"]
                    ELSE [cancels[c] EXCEPT !.pc = "write",
                                            !.copy = reservations[cancels[c].id]])
    /\ UNCHANGED <<users, cache, reservations, sessionIndex, resCreated, lastOp, now,
                   turn, counters, ttlVars, searchVars>>

\* updateReservationStatus, the hSet of the record it read with the new status
\* (reservation-repository.js:164-179)
CancelWrite(c) ==
    /\ cancels[c].pc = "write"
    /\ reservations' = [reservations EXCEPT ![cancels[c].id] =
                           [cancels[c].copy EXCEPT !.status = "cancelled"]]
    /\ SetCancel(c, [cancels[c] EXCEPT !.pc = "done", !.outcome = "none"])
    /\ UNCHANGED <<users, cache, sessionIndex, resCreated, lastOp, now, turn, counters,
                   ttlVars, searchVars>>

NextCancel ==
    \/ \E s \in Sessions : RouteHistory(s)
    \/ \E s \in Sessions, rid \in RestaurantIds \cup {MissingRestaurant},
          time \in ResTimes, guests \in UsualGuests :
         RouteBook(s, rid, time, guests)
    \/ \E c \in CancelReqs, id \in ResIds : StartCancel(c, id)
    \/ \E c \in CancelReqs : CancelLookup(c)
    \/ \E c \in CancelReqs : CancelUpdateRead(c)
    \/ \E c \in CancelReqs : CancelWrite(c)

SpecCancel == Init /\ [][NextCancel]_vars

NextIndex ==
    \/ NextRes
    \/ \E id \in ResIds : DeleteReservation(id)

SpecIndex == Init /\ [][NextIndex]_vars

NextStatus ==
    \/ NextRes
    \/ \E id \in ResIds : MarkCompleted(id)

SpecStatus == Init /\ [][NextStatus]_vars

(* ------------------------ TTL policy specification --------------------- *)
\* the names a toolsUsed list may hold: the tools, the loop's markers, anything else
ListNames == ToolNames \cup {"none", "error"}

InitTTL ==
    /\ InitStores
    /\ restaurantIndex = <<>>
    /\ SearchIdle
    /\ ttlList \in {<<>>} \cup SeqsUpTo(ListNames, MaxListLen)

\* one call of determineToolBasedCacheTTL on the list
CallTTL ==
    /\ ttlOut = -1
    /\ ttlOut' = determineToolBasedCacheTTL(ttlList)
    /\ UNCHANGED <<storeVars, turn, counters, ttlList, searchVars>>

NextTTL == CallTTL

SpecTTL == InitTTL /\ [][NextTTL]_vars


(* --------------------------- loop specification ------------------------ *)
\* a turn whose model keeps asking for direct_answer
LoopStep(t) ==
    \/ StartTurn(t)
    \/ HistoryRead(t)
    \/ HistoryCreate(t)
    \/ QueryCacheCheck(t)
    \/ ModelInvoke(t, {"direct_answer"}, MaxLoopCalls)
    \/ ExecLookupTool(t)
    \/ ProcessWorkOutputWithCaching(t)
    \/ SaveUserMessage(t)
    \/ SaveAssistantMessage(t)
    \/ FinishTurn(t)

NextLoop == \E t \in Slots : LoopStep(t)

SpecLoop == Init /\ [][NextLoop]_vars

(* ----------------------- smart recall specification ------------------- *)
\* turns that carry either value of useSmartRecall
RecallStep(t) ==
    \/ StartTurnWith(t, BOOLEAN)
    \/ HistoryRead(t)
    \/ HistoryCreate(t)
    \/ QueryCacheCheck(t)
    \/ ModelInvoke(t, {"direct_answer"}, MaxToolCalls)
    \/ ExecLookupTool(t)
    \/ ProcessWorkOutputWithCaching(t)
    \/ SaveUserMessage(t)
    \/ SaveAssistantMessage(t)
    \/ FinishTurn(t)

NextRecall == \E t \in Slots : RecallStep(t)

(* ------------------------- two overlapping turns ------------------------ *)
\* two requests of POST /chat are in flight at once
OverlapSlots == {"t1", "t2"}

InitTwoTurns(sessionRecord) ==
    /\ users = [s \in Sessions |-> sessionRecord]
    /\ cache = {}
    /\ reservations = [id \in ResIds |-> NoRes]
    /\ cancels = [c \in CancelReqs |-> IdleCancel]
    /\ sessionIndex = [s \in Sessions |-> {}]
    /\ resCreated = 0
    /\ lastOp = NoOp
    /\ now = 0
    /\ turn = [t \in OverlapSlots |-> IdleTurn]
    /\ turnsStarted = 0
    /\ toolCallsTotal = 0
    /\ ttlOut = -1
    /\ ttlList = <<>>
    /\ restaurantIndex = <<>>
    /\ SearchIdle

\* both sessions were created by earlier history reads
InitOverlap == InitTwoTurns([exists |-> TRUE, chat |-> <<>>])

\* the steps of a turn in which nothing throws
OverlapStep(t) ==
    \/ StartTurn(t)
    \/ HistoryRead(t)
    \/ QueryCacheCheck(t)
    \/ ModelInvoke(t, {"direct_answer"}, MaxToolCalls)
    \/ ExecLookupTool(t)
    \/ ProcessWorkOutputWithCaching(t)
    \/ SaveUserMessage(t)
    \/ SaveAssistantMessage(t)
    \/ FinishTurn(t)

NextOverlap == \E t \in OverlapSlots : OverlapStep(t)

SpecOverlap == InitOverlap /\ [][NextOverlap]_vars

\* no session exists yet: the first requests create it
InitLazy == InitTwoTurns(NoUser)

LazyStep(t) ==
    \/ OverlapStep(t)
    \/ HistoryCreate(t)

NextLazy ==
    \/ \E t \in OverlapSlots : LazyStep(t)
    \/ \E s \in Sessions : RouteHistory(s)

SpecLazy == InitLazy /\ [][NextLazy]_vars

SpecRecall == Init /\ [][NextRecall]_vars

(* ------------------------- hybrid retrieval ---------------------------- *)
\* A document of the index: its city and cuisine tags, its rating, and whether it
\* lies within the radius of the coordinate a search supplies. Documents come back
\* from a query in index order. The filters locality, type, maxPrice and minRating
\* are left out: they narrow steps 1 and 2 the way the coordinate does.
MaxDocs == 3
Cities == {"c1", "c2"}
Cuisines == {"k1", "k2"}
Ratings == {3, 5}
\* a document of the index; near: its coordinate lies within the radius of the search
Documents ==
    [city : Cities, cuisine : Cuisines, rating : Ratings, near : BOOLEAN,
     locality : {"l1"}, type : {"t1"}, priceFor2 : {1}, diningReviewCount : {0}]
LimitStrings == {"1", "2"}
DefaultMaxResults == 15
PopularMinRating == 4
MaxValidLimit == 50

\* parseInt on the limit and maxPrice strings of the schema
parseInt(s) == IF s = "1" THEN 1 ELSE 2

\* parseFloat on the minRating strings of the schema
parseFloat(s) == IF s = "4" THEN 4 ELSE 5

\* x ? parse(x) : undefined (part_005:45-46, 58-59)
maxPriceOf(args) == IF args.maxPrice # NoValue THEN parseInt(args.maxPrice) ELSE 0
minRatingOf(args) == IF args.minRating # NoValue THEN parseFloat(args.minRating) ELSE 0

Min(a, b) == IF a < b THEN a ELSE b
Max(a, b) == IF a > b THEN a ELSE b

\* client.ft.search with LIMIT {from: 0, size}: the first size documents, in index
\* order, that pass the filter. A filter is a record; NoValue / FALSE / 0 leave a
\* field unfiltered.
Passes(doc, filter) ==
    /\ filter.cuisine # NoValue => doc.cuisine = filter.cuisine
    /\ filter.city # NoValue => doc.city = filter.city
    /\ filter.locality # NoValue => doc.locality = filter.locality
    /\ filter.type # NoValue => doc.type = filter.type
    /\ filter.maxPrice # 0 => doc.priceFor2 <= filter.maxPrice
    /\ filter.geo => doc.near
    /\ doc.rating >= filter.minRating

DocIds == [i \in 1..Len(restaurantIndex) |-> i]

FirstN(list, n) == SubSeq(list, 1, Min(n, Len(list)))

ftSearch(filter, size) ==
    FirstN(SelectSeq(DocIds, LAMBDA i : Passes(restaurantIndex[i], filter)), size)

\* RestaurantRepository.searchRestaurants (restaurant-loader.js:403-449)
searchRestaurants(cuisine, city, minRating, limit) ==
    ftSearch([cuisine |-> cuisine, city |-> city, locality |-> NoValue,
              type |-> NoValue, maxPrice |-> 0, geo |-> FALSE,
              minRating |-> minRating], limit)

\* vectorSearchRestaurants, service and repository (restaurant-service.js:326-380,
\* restaurant-loader.js:459-507): KNN limit over the documents passing the filters
vectorSearchRestaurants(args, cuisine, limit) ==
    ftSearch([cuisine |-> cuisine, city |-> args.city, locality |-> args.locality,
              type |-> args.type, maxPrice |-> maxPriceOf(args),
              geo |-> (args.latitude /\ args.longitude),
              minRating |-> minRatingOf(args)], limit)

\* getRestaurantsByLocation, service and repository (restaurant-service.js:88-114,
\* restaurant-loader.js:516-536)
getRestaurantsByLocation(limit) ==
    ftSearch([cuisine |-> NoValue, city |-> NoValue, locality |-> NoValue,
              type |-> NoValue, maxPrice |-> 0, geo |-> TRUE, minRating |-> 0],
             Min(Max(limit, 1), MaxValidLimit))

\* findNearbyRestaurants (restaurant-service.js:131-175): 2 x limit nearby documents,
\* then the cuisine, city, maxPrice and minRating filters, then slice(0, limit);
\* locality and type are not among its options
findNearbyRestaurants(args, cuisine, limit) ==
    LET filter == [cuisine |-> cuisine, city |-> args.city, locality |-> NoValue,
                   type |-> NoValue, maxPrice |-> maxPriceOf(args), geo |-> FALSE,
                   minRating |-> minRatingOf(args)]
    IN FirstN(SelectSeq(getRestaurantsByLocation(limit * 2),
                        LAMBDA i : Passes(restaurantIndex[i], filter)), limit)

\* b.reviewCount || 0 on a search result (restaurant-service.js:205): the documents
\* hold diningReviewCount (restaurant-loader.js:163, 234) and the search returns
\* name, cuisine, city, locality, type, priceFor2, rating and about
\* (restaurant-loader.js:443), so reviewCount is undefined on every result
reviewCountOrZero(i) == 0

\* the comparator of the sort (restaurant-service.js:200-206): a goes before b
sortsBefore(a, b) ==
    IF restaurantIndex[b].rating # restaurantIndex[a].rating
    THEN restaurantIndex[a].rating > restaurantIndex[b].rating
    ELSE reviewCountOrZero(a) > reviewCountOrZero(b)

\* x put into a sorted list before the first element it goes before
insertSorted(sorted, x) ==
    LET ahead == {k \in 1..Len(sorted) : sortsBefore(x, sorted[k])}
        at == IF ahead = {} THEN Len(sorted) + 1
              ELSE CHOOSE k \in ahead : \A m \in ahead : k <= m
    IN SubSeq(sorted, 1, at - 1) \o <<x>> \o SubSeq(sorted, at, Len(sorted))

\* restaurants.sort (restaurant-service.js:200-206), a stable sort
RECURSIVE sortByRating(_)
sortByRating(list) ==
    IF list = <<>> THEN <<>>
    ELSE insertSorted(sortByRating(SubSeq(list, 1, Len(list) - 1)), list[Len(list)])

\* getPopularRestaurants (restaurant-service.js:185-214)
getPopularRestaurants(city, limit, cuisine) ==
    sortByRating(searchRestaurants(cuisine, city, PopularMinRating,
                                   Min(Max(limit, 1), MaxValidLimit)))

\* const maxResults = limit ? parseInt(limit) : 15 (part_005:30)
maxResultsOf(args) ==
    IF args.limit # NoValue THEN parseInt(args.limit) ELSE DefaultMaxResults

\* query && useSemanticSearch (part_005:35)
isSemantic(args) == args.query /\ args.useSemanticSearch

\* latitude && longitude (part_005:51)
hasLocation(args) == args.latitude /\ args.longitude

\* a slip: one coordinate is enough for the geo step
primaryStep_mut(args) ==
    IF isSemantic(args) THEN "semantic"
    ELSE IF args.latitude \/ args.longitude THEN "location" ELSE "popular"

\* the branch of the primary search (part_005:35, 51, 63)
primaryStep(args) ==
    IF isSemantic(args) THEN "semantic"
    ELSE IF hasLocation(args) THEN "location" ELSE "popular"

\* the primary search (part_005:34-66): semantic with 2 x maxResults candidates,
\* else location-based, else popular
primarySearch(args) ==
    IF primaryStep(args) = "semantic"
    THEN vectorSearchRestaurants(args, args.cuisine, maxResultsOf(args) * 2)
    ELSE IF primaryStep(args) = "location"
    THEN findNearbyRestaurants(args, args.cuisine, maxResultsOf(args))
    ELSE getPopularRestaurants(args.city, maxResultsOf(args), args.cuisine)

\* a slip: the retry without the cuisine filter is left out
retrySearch_mut(args, result) == result

\* the retry (part_005:68-96): on zero results with a cuisine filter, the semantic
\* or the location step again without the cuisine; the popular step is not retried
retrySearch(args, result) ==
    IF result = <<>> /\ args.cuisine # NoValue
    THEN IF isSemantic(args)
         THEN vectorSearchRestaurants(args, NoValue, maxResultsOf(args) * 2)
         ELSE IF hasLocation(args)
         THEN findNearbyRestaurants(args, NoValue, maxResultsOf(args))
         ELSE result
    ELSE result

\* the final fallback (part_005:98-102): getPopularRestaurants({ city, limit })
finalFallback(args, result) ==
    IF result = <<>>
    THEN getPopularRestaurants(args.city, maxResultsOf(args), NoValue)
    ELSE result

\* RestaurantService.vectorSearchRestaurants throws INVALID_COORDINATES when only
\* one of latitude and longitude is given (restaurant-service.js:349-355)
vectorSearchThrows(args) == isSemantic(args) /\ args.latitude # args.longitude

\* semanticSearchRestaurantsTool (part_005:25-118), the index answering every query;
\* a throw of the search is caught and answered with success: false and no list
\* (part_005:114-121)
semanticSearchRestaurantsTool(args) ==
    LET first == primarySearch(args)
        second == retrySearch(args, first)
        finalRestaurants == finalFallback(args, second)
    IN IF vectorSearchThrows(args)
       THEN [called |-> TRUE, success |-> FALSE, restaurants |-> <<>>,
             searchStrategy |-> NoValue, firstStep |-> primaryStep(args),
             retried |-> FALSE, fellBack |-> FALSE, threw |-> TRUE]
       ELSE
       [called |-> TRUE,
        success |-> Len(finalRestaurants) > 0,
        restaurants |-> finalRestaurants,
        searchStrategy |-> IF isSemantic(args) THEN "semantic"
                           ELSE IF hasLocation(args) THEN "location" ELSE "popular",
        firstStep |-> primaryStep(args),
        retried |-> (first = <<>> /\ args.cuisine # NoValue
                       /\ (isSemantic(args) \/ hasLocation(args))),
        fellBack |-> (second = <<>>),
        threw |-> FALSE]

(* ------------------------ retrieval specification ---------------------- *)
SearchArgs ==
    [query : BOOLEAN, useSemanticSearch : BOOLEAN, latitude : BOOLEAN,
     longitude : BOOLEAN, cuisine : Cuisines \cup {NoValue},
     city : Cities \cup {NoValue}, locality : {NoValue}, type : {NoValue},
     maxPrice : {NoValue}, minRating : {NoValue},
     limit : LimitStrings \cup {NoValue}]

InitSearch ==
    /\ InitStores
    /\ ttlList = <<>>
    /\ restaurantIndex \in {<<>>} \cup SeqsUpTo(Documents, MaxDocs)
    /\ SearchIdle

\* one call of semantic_search_restaurants on the index
CallSearchWith(argSet) ==
    /\ ~searchResult.called
    /\ \E args \in argSet :
         /\ searchArgs' = args
         /\ searchResult' = semanticSearchRestaurantsTool(args)
    /\ UNCHANGED <<storeVars, turn, counters, ttlVars, restaurantIndex>>

CallSearch == CallSearchWith(SearchArgs)

NextSearch == CallSearch

(* --------------------- geo step with every filter ---------------------- *)
MaxGeoDocs == 2
GeoDocuments ==
    [city : Cities, cuisine : {"k1"}, rating : Ratings, near : BOOLEAN,
     locality : {"l1", "l2"}, type : {"t1", "t2"}, priceFor2 : {1, 3},
     diningReviewCount : {0}]

\* calls that take the geo step: no query, both coordinates, any filter
GeoArgs ==
    [query : {FALSE}, useSemanticSearch : {TRUE}, latitude : {TRUE},
     longitude : {TRUE}, cuisine : {NoValue, "k1"}, city : {NoValue, "c1"},
     locality : {NoValue, "l1"}, type : {NoValue, "t1"},
     maxPrice : {NoValue, "2"}, minRating : {NoValue, "4"}, limit : {NoValue}]

InitGeo ==
    /\ InitStores
    /\ ttlList = <<>>
    /\ restaurantIndex \in {<<>>} \cup SeqsUpTo(GeoDocuments, MaxGeoDocs)
    /\ SearchIdle

CallGeo == CallSearchWith(GeoArgs)

(* ----------------------- popular step and its order --------------------- *)
PopularRatings == {3, 4, 5}
PopularDocuments ==
    [city : Cities, cuisine : Cuisines, rating : PopularRatings, near : {FALSE},
     locality : {"l1"}, type : {"t1"}, priceFor2 : {1}, diningReviewCount : {1, 9}]

\* calls that take the popular step: no query and no coordinate
PopularArgs ==
    [query : {FALSE}, useSemanticSearch : {TRUE}, latitude : {FALSE},
     longitude : {FALSE}, cuisine : {NoValue, "k1"}, city : {NoValue, "c1"},
     locality : {NoValue}, type : {NoValue}, maxPrice : {NoValue},
     minRating : {NoValue}, limit : LimitStrings \cup {NoValue}]

InitPopular ==
    /\ InitStores
    /\ ttlList = <<>>
    /\ restaurantIndex \in {<<>>} \cup SeqsUpTo(PopularDocuments, MaxDocs)
    /\ SearchIdle

CallPopular == CallSearchWith(PopularArgs)

NextPopular == CallPopular

SpecPopular == InitPopular /\ [][NextPopular]_vars

NextGeo == CallGeo

SpecGeo == InitGeo /\ [][NextGeo]_vars

SpecSearch == InitSearch /\ [][NextSearch]_vars

(* ============================== claims ================================= *)
Range(list) == {list[i] : i \in 1..Len(list)}

\* C1: a turn whose cache check obtained a cached response ends at once with
\* cacheStatus = hit: the model is never invoked, no tool runs, toolsUsed stays
\* empty and the cache store is never called.
C1_HitEndsTurn ==
    \A t \in Slots :
        turn[t].cacheStatus = "hit" =>
            /\ turn[t].workflowDone
            /\ turn[t].pc \in {"save_user", "save_asst", "done"}
            /\ turn[t].llmCalls = 0
            /\ turn[t].loopTools = <<>>
            /\ turn[t].toolsUsed = <<>>
            /\ turn[t].pending = <<>>
            /\ turn[t].storeCalls = 0

\* a turn answered from the cache has returned its reply
C1_Witness ==
    \E t \in Slots :
        /\ turn[t].cacheStatus = "hit"
        /\ turn[t].pc = "done"
        /\ turn[t].reply.isCachedResponse

\* C2: whenever the tools of a turn include make_reservation, get_user_reservations
\* or cancel_reservation, the TTL policy gives 0 for the list, the turn ends with
\* cacheStatus = skip and no cache store call, and no cache entry was ever produced
\* by a turn that used a reservation tool.
C2_ReservationTurnsNeverCached ==
    /\ \A t \in Slots :
          Range(turn[t].loopTools) \cap
              {"make_reservation", "get_user_reservations", "cancel_reservation"} # {} =>
            /\ determineToolBasedCacheTTL(turn[t].loopTools) = 0
            /\ turn[t].storeCalls = 0
            /\ turn[t].workflowDone => turn[t].cacheStatus = "skip"
    /\ \A e \in cache : ~e.personal

\* a turn that ran a reservation tool next to another tool has gone through the
\* cache-write step
C2_Witness ==
    \E t \in Slots :
        /\ turn[t].workflowDone
        /\ turn[t].cacheStatus = "skip"
        /\ ~includes(turn[t].toolsUsed, "error")
        /\ Len(turn[t].loopTools) = 2
        /\ includes(turn[t].loopTools, "cancel_reservation")
        /\ includes(turn[t].loopTools, "semantic_search_restaurants")

\* C3 (as claimed): a cache hit only returns an entry written by the session of the
\* turn doing the lookup.
C3_HitOnlyFromOwnSession ==
    \A t \in Slots :
        turn[t].cacheStatus = "hit" => turn[t].hitFrom = turn[t].sessionId


\* C4 (as claimed): the agent loop is bounded: whatever the model returns, a turn
\* makes at most a fixed number of model invocations (LoopCap) before it reaches
\* its final answer or fallback.
C4_BoundedLoop ==
    \A t \in Slots : turn[t].llmCalls <= LoopCap


\* C5 (as claimed): every turn that was processed, whatever its path, appended
\* exactly one user message and then one assistant message, and the assistant
\* message is the content returned to the caller.
C5_EveryTurnAppendsPair ==
    \A t \in Slots :
        turn[t].pc = "done" =>
            /\ turn[t].appended = <<"user", "assistant">>
            /\ turn[t].savedContent = turn[t].reply.content

\* C5 (amended): nothing is appended before the workflow has completed; a turn
\* appends at most its user message and then its assistant message; and a turn
\* whose workflow and session-store calls all succeeded has appended exactly that
\* pair, which is in the session's transcript in that order, the assistant message
\* being the content returned to the caller. A turn that failed returns the static
\* apology.
C5_PairAppendedWhenStoreSucceeds ==
    \A t \in Slots :
        LET r == turn[t]
            chat == users[r.sessionId].chat
        IN /\ ~r.workflowDone => r.appended = <<>>
           /\ r.appended \in {<<>>, <<"user">>, <<"user", "assistant">>}
           /\ r.pc = "save_asst" => r.appended = <<"user">>
           /\ (r.pc = "done" /\ r.outcome = "failed") =>
                 r.reply = [content |-> FallbackApology, isCachedResponse |-> FALSE]
           /\ (r.pc = "done" /\ r.outcome = "ok") =>
                 /\ r.appended = <<"user", "assistant">>
                 /\ r.savedContent = r.reply.content
                 /\ r.reply.content = r.result
                 /\ \E i, j \in 1..Len(chat) :
                       /\ i < j
                       /\ chat[i] = [role |-> "user", content |-> r.message]
                       /\ chat[j] = [role |-> "assistant", content |-> r.reply.content]

\* a turn that ended in the agent's apology has saved its pair and returned
C5_Witness ==
    \E t \in Slots :
        /\ turn[t].pc = "done"
        /\ turn[t].outcome = "ok"
        /\ turn[t].reply.content = AgentApology
        /\ turn[t].appended = <<"user", "assistant">>
        /\ Len(users[turn[t].sessionId].chat) = 4

\* C6 (as claimed): a turn in which some tool reported a failure performs no cache
\* store, so no cache entry comes from a failed turn.
C6_FailedTurnNeverCached ==
    /\ \A t \in Slots : turn[t].toolFailed => turn[t].storeCalls = 0
    /\ \A e \in cache : ~e.failed

\* the ladder of the TTL policy, over the set of names in the list
Hours(n) == n * 60 * 60 * 1000
ReferenceTTL(names) ==
    CASE names \cap {"make_reservation", "get_user_reservations", "cancel_reservation"} # {}
            -> 0
      [] OTHER ->
         CASE names \cap {"get_popular_restaurants", "direct_answer"} # {} -> Hours(7 * 24)
           [] OTHER ->
              CASE "semantic_search_restaurants" \in names -> Hours(24)
                [] OTHER ->
                   CASE "get_restaurant_details" \in names -> Hours(6)
                     [] OTHER -> Hours(12)

\* C7: for every toolsUsed list, determineToolBasedCacheTTL returns what the ladder
\* gives with first match wins: 0 with a reservation tool; else 7 days with
\* get_popular_restaurants or direct_answer; else 24 hours with
\* semantic_search_restaurants; else 6 hours with get_restaurant_details; else 12
\* hours (the empty list, <<"none">> and unrecognised names included).
C7_TTLMatchesLadder ==
    ttlOut # -1 => ttlOut = ReferenceTTL(Range(ttlList))

\* the policy was applied to a list in which a later reservation tool overrides the
\* static and search tools before it
C7_Witness ==
    /\ ttlList = <<"direct_answer", "semantic_search_restaurants", "cancel_reservation">>
    /\ ttlOut = 0

\* C8 (as claimed): cancelling a confirmed reservation whose start is less than two
\* hours away is rejected with CancellationTooLate and leaves it confirmed; with two
\* hours or more to go it is accepted and the status becomes cancelled.
C8_CancelRespectsLeadTime ==
    (lastOp.op = "cancel" /\ lastOp.was = "confirmed"
        /\ restaurantExists(reservations[lastOp.id].restaurantId)) =>
        IF lastOp.hours < 2
        THEN /\ lastOp.error = "CANCELLATION_TOO_LATE"
             /\ reservations[lastOp.id].status = "confirmed"
        ELSE /\ lastOp.error = "none"
             /\ reservations[lastOp.id].status = "cancelled"

\* C9 (as claimed): a cancellation asked for on behalf of a session that does not
\* own the reservation is rejected and changes nothing.
C9_OnlyOwnerCancels ==
    (lastOp.op = "cancel" /\ lastOp.was # "absent"
        /\ reservations[lastOp.id].sessionId # lastOp.by) =>
        /\ lastOp.error # "none"
        /\ ~lastOp.changed

\* C10 (as claimed): create-reservation for a restaurant id that does not exist
\* fails with RestaurantNotFound and leaves the stored reservations and the
\* session's reservation-id set as they were.
C10_MissingRestaurantPersistsNothing ==
    (lastOp.op = "create" /\ ~restaurantExists(lastOp.restaurantId)
        /\ users[lastOp.by] # NoUser) =>
        /\ lastOp.error = "RESTAURANT_NOT_FOUND"
        /\ ~lastOp.changed


\* ordered positions of a tool name in a list
Positions(list, name) == {i \in 1..Len(list) : list[i] = name}

\* C11 (as claimed): in every turn, each execution of cancel_reservation comes after
\* an execution of get_user_reservations earlier in the same turn's tool sequence.
C11_ListBeforeCancel ==
    \A t \in Slots :
        \A i \in Positions(turn[t].loopTools, "cancel_reservation") :
            \E j \in Positions(turn[t].loopTools, "get_user_reservations") : j < i

\* C12: every make_reservation and get_user_reservations call receives the turn's
\* session id whatever the model supplied, so a reservation created by a turn is
\* owned by the turn's session and a listing holds only that session's reservations.
C12_ToolsGetTurnSession ==
    /\ \A t \in Slots :
          /\ turn[t].passedSessionId \in {NoValue, turn[t].sessionId}
          /\ \A id \in turn[t].listed : reservations[id].sessionId = turn[t].sessionId
    /\ (lastOp.op = "create" /\ lastOp.changed) =>
          reservations[lastOp.id].sessionId = lastOp.by

\* C12's case: a turn has listed its reservations while another session holds one,
\* which the listing left out
C12_Witness ==
    \E t \in Slots :
        /\ includes(turn[t].loopTools, "get_user_reservations")
        /\ turn[t].passedSessionId = turn[t].sessionId
        /\ \E id \in ResIds : /\ reservations[id] # NoRes
                              /\ reservations[id].sessionId # turn[t].sessionId

\* the throws that come after the workflow graph has run: the two transcript saves
SaveFailures == {"save_user", "save_asst"}

\* C17: a cache lookup that throws is reported as a miss and the turn goes on to the
\* agent loop; the turn is not failed by it, and when nothing else throws past the
\* workflow the user receives the agent's answer, not marked as cached.
C17_LookupFailureIsMiss ==
    \A t \in Slots : turn[t].lookupThrew =>
        /\ turn[t].cacheStatus \in {"miss", "saved", "skip", "error"}
        /\ turn[t].hitFrom = NoValue
        /\ (turn[t].llmCalls = 0) => (turn[t].pc = "agent" \/ turn[t].failedAt = "agent")
        /\ turn[t].failedAt \in {NoValue, "agent"} \cup SaveFailures
        /\ (turn[t].pc = "done" /\ turn[t].failedAt = NoValue) =>
              /\ turn[t].agentAnswer # NoValue
              /\ turn[t].reply = [content |-> turn[t].agentAnswer, isCachedResponse |-> FALSE]

\* C17's case: the lookup threw and the turn ended with the model's answer
C17_Witness ==
    \E t \in Slots : /\ turn[t].lookupThrew
                     /\ turn[t].pc = "done"
                     /\ turn[t].reply.content \in Answers

\* C18: a cache store that throws ends the write step with cacheStatus=error and the
\* agent's answer unchanged; the turn is not failed by it, and when the transcript
\* saves succeed that answer is returned and appended to the transcript.
C18_StoreFailureKeepsAnswer ==
    \A t \in Slots : turn[t].storeThrew =>
        /\ turn[t].cacheStatus = "error"
        /\ turn[t].agentAnswer # NoValue
        /\ turn[t].result = turn[t].agentAnswer
        /\ turn[t].failedAt \in {NoValue} \cup SaveFailures
        /\ (turn[t].pc = "done" /\ turn[t].failedAt = NoValue) =>
              /\ turn[t].reply.content = turn[t].agentAnswer
              /\ turn[t].appended = <<"user", "assistant">>
              /\ turn[t].savedContent = turn[t].agentAnswer
              /\ LET chat == users[turn[t].sessionId].chat
                 IN /\ Len(chat) >= 2
                    /\ chat[Len(chat)] = [role |-> "assistant",
                                          content |-> turn[t].agentAnswer]

\* C18's case: the store threw and the turn ended well
C18_Witness ==
    \E t \in Slots : /\ turn[t].storeThrew
                     /\ turn[t].pc = "done"
                     /\ turn[t].outcome = "ok"

\* C19: when a model invocation inside the agent loop throws, the result is the
\* agent's apology, toolsUsed is exactly <<"error">> and the write step ends with
\* cacheStatus=skip without a call of the cache store.
C19_ModelFailureApologyAndSkip ==
    \A t \in Slots : turn[t].modelThrew =>
        /\ turn[t].result = AgentApology
        /\ turn[t].toolsUsed = <<"error">>
        /\ turn[t].storeCalls = 0
        /\ turn[t].pc \in {"write", "save_user", "save_asst", "done"}
        /\ turn[t].workflowDone => turn[t].cacheStatus = "skip"
        /\ \A c \in cache : c.response # AgentApology

\* C19's case: the model threw after a search tool had run, and the write step is over
C19_Witness ==
    \E t \in Slots : /\ turn[t].modelThrew
                     /\ turn[t].workflowDone
                     /\ includes(turn[t].loopTools, "semantic_search_restaurants")

\* the positions of a turn
TurnPositions ==
    {"idle", "history", "create", "cache", "agent", "tool", "write", "save_user",
     "save_asst", "done"}

\* C20: processRestaurantInquiry never throws: whatever fails, the turn ends with a
\* reply that has isCachedResponse and content, the content being the workflow's
\* result or the static apology.
C20_InquiryAlwaysReplies ==
    \A t \in Slots :
        /\ turn[t].pc \in TurnPositions
        /\ turn[t].pc = "done" =>
              \/ /\ turn[t].outcome = "ok"
                 /\ turn[t].workflowDone
                 /\ turn[t].result # NoValue
                 /\ turn[t].reply = [content |-> turn[t].result,
                                     isCachedResponse |-> (turn[t].cacheStatus = "hit")]
              \/ /\ turn[t].outcome = "failed"
                 /\ turn[t].reply = [content |-> FallbackApology,
                                     isCachedResponse |-> FALSE]

\* C20's case: each kind of throw has ended a turn with the static apology
C20_Witness ==
    \E t \in Slots : /\ turn[t].pc = "done"
                     /\ turn[t].failedAt = "save_asst"
                     /\ turn[t].reply.content = FallbackApology

\* C13 (as claimed): the list returned by the unified search has at most limit
\* elements (the requested limit, or the default when none is given).
C13_AtMostLimit ==
    searchResult.called => Len(searchResult.restaurants) <= maxResultsOf(searchArgs)

\* the semantic or the geo step ran for the arguments, and it and its
\* cuisine-relaxed retry returned zero documents
LadderExhausted(args) ==
    /\ isSemantic(args) \/ hasLocation(args)
    /\ ~vectorSearchThrows(args)
    /\ primarySearch(args) = <<>>
    /\ primarySearch([args EXCEPT !.cuisine = NoValue]) = <<>>

\* C14 (as claimed): when the semantic step, the geo step and their cuisine-relaxed
\* retries return zero documents, the result is that of the popular query
\* (rating >= 4.0) restricted to the supplied city and the supplied cuisine.
C14_FallbackIsPopularForCityAndCuisine ==
    (searchResult.called /\ LadderExhausted(searchArgs)) =>
        searchResult.restaurants =
            getPopularRestaurants(searchArgs.city, maxResultsOf(searchArgs),
                                  searchArgs.cuisine)

\* C15 (as claimed): whenever the index holds at least one document, every search
\* returns at least one restaurant.
C15_EmptyOnlyIfIndexEmpty ==
    (searchResult.called /\ restaurantIndex # <<>>) => searchResult.restaurants # <<>>

\* C16: when the semantic or the geo step returns zero results and a cuisine filter
\* was supplied, the step is run again with the same arguments but no cuisine, and
\* a non-empty retry result is the final result, with no popular fallback; its
\* restaurants then satisfy the city filter and the coordinate of the search.
C16_RetryWithoutCuisine ==
    (/\ searchResult.called
     /\ isSemantic(searchArgs) \/ hasLocation(searchArgs)
     /\ ~searchResult.threw
     /\ searchArgs.cuisine # NoValue
     /\ primarySearch(searchArgs) = <<>>) =>
        LET relaxed == primarySearch([searchArgs EXCEPT !.cuisine = NoValue])
        IN relaxed # <<>> =>
             /\ searchResult.restaurants = relaxed
             /\ \A i \in Range(searchResult.restaurants) :
                   /\ searchArgs.city # NoValue =>
                         restaurantIndex[i].city = searchArgs.city
                   /\ hasLocation(searchArgs) => restaurantIndex[i].near

\* C16's case: a cuisine with no match in a city that has restaurants; the retry
\* returned that city's restaurants
C16_Witness ==
    /\ searchResult.called
    /\ searchResult.retried
    /\ ~searchResult.fellBack
    /\ searchArgs.city # NoValue
    /\ searchResult.restaurants # <<>>

\* C21: once a turn has stored its answer for a text, a later turn with the identical
\* text (sooner than the entry's TTL, and its cache lookup answering) ends with
\* cacheStatus=hit and a response stored for that text, and no model call or tool
\* runs in it; unless a transcript save throws, that response is what it returns.
C21_IdenticalQueryHits ==
    \A t \in Slots : (turn[t].storedAtCheck /\ ~turn[t].lookupThrew) =>
        /\ turn[t].cacheStatus = "hit"
        /\ \E e \in cache : e.prompt = turn[t].message /\ e.response = turn[t].result
        /\ turn[t].llmCalls = 0
        /\ turn[t].loopTools = <<>>
        /\ turn[t].toolsUsed = <<>>
        /\ turn[t].failedAt \in {NoValue} \cup SaveFailures
        /\ (turn[t].pc = "done" /\ turn[t].failedAt = NoValue) =>
              turn[t].reply = [content |-> turn[t].result, isCachedResponse |-> TRUE]

\* C21's case: a turn repeated a text stored for 24 hours and was answered from the cache
C21_Witness ==
    \E t \in Slots : /\ turn[t].storedAtCheck
                     /\ turn[t].pc = "done"
                     /\ turn[t].reply.isCachedResponse
                     /\ \E e \in cache : /\ e.prompt = turn[t].message
                                          /\ e.ttlMillis = TTL24h

\* C22: cancel-reservation on a reservation that is already cancelled is rejected
\* with ALREADY_CANCELLED and changes nothing: the status stays cancelled.
C22_SecondCancelRejected ==
    (lastOp.op = "cancel" /\ lastOp.was = "cancelled") =>
        /\ lastOp.error = "ALREADY_CANCELLED"
        /\ ~lastOp.changed
        /\ reservations[lastOp.id].status = "cancelled"

\* C22's case: a cancelled reservation was asked to be cancelled again
C22_Witness ==
    /\ lastOp.op = "cancel"
    /\ lastOp.was = "cancelled"
    /\ lastOp.error # "none"

\* the statuses after which a reservation's status is final
FinalStatuses == {"cancelled", "completed"}

\* C23 (as claimed): a reservation is created with status confirmed, and once its
\* status is cancelled or completed no operation changes the status again: a
\* cancel-reservation on a completed reservation leaves it completed.
C23_StatusOnlyMovesForward ==
    [][\A id \in ResIds :
          /\ (reservations[id] = NoRes /\ reservations'[id] # NoRes) =>
                reservations'[id].status = "confirmed"
          /\ reservations[id].status \in FinalStatuses =>
                reservations'[id].status = reservations[id].status]_vars

\* C24 (as claimed): after end-session for a session has completed, the session has
\* no chat history and no reservations: a list of its reservations is empty.
C24_EndSessionRemovesAll ==
    lastOp.op = "end" =>
        /\ users[lastOp.by] = NoUser
        /\ getReservationsBySession(lastOp.by) = {}

\* C25: in every turn the cache store is called at most once and the cacheStatus the
\* workflow ends with agrees with it: saved exactly when one store call was made
\* and succeeded (the entry is then in the cache), error exactly when the store call
\* failed, hit or skip only with no store call, and never miss after the agent loop.
C25_CacheStatusMatchesStore ==
    \A t \in Slots :
        /\ turn[t].storeCalls <= 1
        /\ turn[t].workflowDone =>
              /\ turn[t].cacheStatus \in {"hit", "saved", "skip", "error"}
              /\ turn[t].cacheStatus = "saved" <=>
                    (turn[t].storeCalls = 1 /\ ~turn[t].storeThrew)
              /\ turn[t].cacheStatus = "saved" =>
                    \E e \in cache : /\ e.prompt = turn[t].message
                                      /\ e.response = turn[t].result
                                      /\ e.sessionId = turn[t].sessionId
              /\ turn[t].cacheStatus = "error" <=> turn[t].storeThrew
              /\ turn[t].cacheStatus \in {"hit", "skip"} => turn[t].storeCalls = 0
              /\ (turn[t].cacheStatus = "hit") <=> (turn[t].llmCalls = 0)
        /\ (turn[t].llmCalls > 0 /\ turn[t].pc \in {"save_user", "save_asst", "done"}) =>
              turn[t].cacheStatus # "miss"

\* C25's case: with an entry saved by an earlier turn, a turn that ran a
\* reservation tool has ended with skip
C25_Witness ==
    \E t \in Slots : /\ turn[t].pc = "done"
                     /\ turn[t].cacheStatus = "skip"
                     /\ includes(turn[t].loopTools, "make_reservation")
                     /\ cache # {}

\* C26: the customer contact fields of every persisted reservation are those of the
\* profile of the reservation's sessionId; a value for them supplied by the caller
\* of create-reservation is never used.
C26_ContactFromProfile ==
    \A id \in ResIds : reservations[id] # NoRes =>
        /\ reservations[id].customerName = capitalizedName(reservations[id].sessionId)
        /\ reservations[id].customerName \notin SuppliedNames

\* C26's case: reservations of both sessions are stored, requests having been free
\* to carry a customer name of their own
C26_Witness ==
    \E i, j \in ResIds : /\ reservations[i].sessionId = "alice"
                         /\ reservations[j].sessionId = "bob"

\* the lists over the same names as a list: its reorderings and its variants with
\* names repeated or repeats dropped
SameNames(list) ==
    {other \in {<<>>} \cup SeqsUpTo(ListNames, MaxListLen) : Range(other) = Range(list)}

\* C27: the TTL policy returns one of 0, 6 h, 12 h, 24 h and 7 days for every list,
\* and the value depends only on the set of names in the list: reordering the list
\* or repeating a name in it gives the same value.
C27_TTLDependsOnNameSet ==
    ttlOut # -1 =>
        /\ ttlOut \in {0, TTL6h, TTL12h, TTL24h, TTL7d}
        /\ ttlOut = determineToolBasedCacheTTL(ttlList)
        /\ \A other \in SameNames(ttlList) : determineToolBasedCacheTTL(other) = ttlOut

\* C27's case: a list with a repeated name, whose rungs are out of ladder order
C27_Witness ==
    /\ ttlList = <<"semantic_search_restaurants", "direct_answer",
                   "semantic_search_restaurants">>
    /\ ttlOut = TTL7d

\* the guest counts 1..20, as stored
ValidGuests == {ToString(n) : n \in 1..20}

\* C28 (as claimed): every persisted reservation has a guest count between 1 and 20;
\* create-reservation rejects any other count, and one that is not a number, and
\* persists nothing then.
C28_GuestsWithinRange ==
    \A id \in ResIds : reservations[id] # NoRes => reservations[id].guests \in ValidGuests

\* C29 (as claimed): a turn whose useSmartRecall flag is false is never answered from
\* the semantic cache: it is no hit, its reply is not marked as cached and the
\* agent runs.
C29_NoRecallWithoutFlag ==
    \A t \in Slots : ~turn[t].useSmartRecall =>
        /\ turn[t].cacheStatus # "hit"
        /\ ~turn[t].reply.isCachedResponse
        /\ turn[t].pc = "done" => turn[t].llmCalls > 0

\* C30: the tool calls of a model response run one at a time in the order the model
\* listed them; each is answered by exactly one tool message with its id, all of
\* them before the model is invoked again; and when the loop ends with the model's
\* answer, toolsUsed is the sequence of requested names in that order with repeats,
\* or <<"none">> when the model asked for no tool.
C30_ToolsRunInOrder ==
    \A t \in Slots :
        /\ turn[t].answered = [i \in 1..Len(turn[t].answered) |-> i]
        /\ Len(turn[t].answered) <= Len(turn[t].requested)
        /\ turn[t].loopTools = SubSeq(turn[t].requested, 1, Len(turn[t].answered))
        /\ turn[t].pending =
              SubSeq(turn[t].requested, Len(turn[t].answered) + 1,
                     Len(turn[t].answered) + Len(turn[t].pending))
        /\ turn[t].pc = "agent" => Len(turn[t].answered) = Len(turn[t].requested)
        /\ turn[t].agentAnswer \in Answers =>
              /\ Len(turn[t].answered) = Len(turn[t].requested)
              /\ turn[t].toolsUsed = IF turn[t].requested = <<>> THEN <<"none">>
                                     ELSE turn[t].requested

\* C30's case: a turn ended with the model's answer after two different tools
C30_Witness ==
    \E t \in Slots : /\ turn[t].pc = "done"
                     /\ turn[t].agentAnswer \in Answers
                     /\ Len(turn[t].toolsUsed) = 2
                     /\ turn[t].toolsUsed[1] # turn[t].toolsUsed[2]

\* C31: the first ladder step is selected by the inputs alone: the semantic step
\* for a non-empty query with semantic mode on, else the geo step when latitude and
\* longitude are both supplied, else the popular step; and the cuisine-relaxed
\* retry and the popular fallback run only when the result before them is empty, so
\* a non-empty first result is the returned list.
C31_FirstStepByInputs ==
    searchResult.called =>
        /\ searchResult.firstStep =
              (IF searchArgs.query /\ searchArgs.useSemanticSearch THEN "semantic"
               ELSE IF searchArgs.latitude /\ searchArgs.longitude THEN "location"
               ELSE "popular")
        /\ searchResult.retried => primarySearch(searchArgs) = <<>>
        /\ searchResult.fellBack =>
              retrySearch(searchArgs, primarySearch(searchArgs)) = <<>>
        /\ (~searchResult.threw /\ primarySearch(searchArgs) # <<>>) =>
              searchResult.restaurants = primarySearch(searchArgs)

\* C31's case: only one coordinate was supplied and no query: the popular step ran
\* first and returned restaurants
C31_Witness ==
    /\ searchResult.called
    /\ ~searchArgs.query
    /\ searchArgs.latitude /\ ~searchArgs.longitude
    /\ searchResult.firstStep = "popular"
    /\ ~searchResult.fellBack
    /\ searchResult.restaurants # <<>>

\* C32 (as claimed): when the geo step produces the result of the search, without
\* cuisine relaxation, every returned restaurant lies within the radius and
\* satisfies every other supplied filter: cuisine, city, locality, type, maxPrice
\* and minRating.
C32_GeoResultSatisfiesFilters ==
    (/\ searchResult.called
     /\ searchResult.firstStep = "location"
     /\ ~searchResult.retried
     /\ ~searchResult.fellBack) =>
        \A i \in Range(searchResult.restaurants) :
            LET doc == restaurantIndex[i]
            IN /\ doc.near
               /\ searchArgs.cuisine # NoValue => doc.cuisine = searchArgs.cuisine
               /\ searchArgs.city # NoValue => doc.city = searchArgs.city
               /\ searchArgs.locality # NoValue => doc.locality = searchArgs.locality
               /\ searchArgs.type # NoValue => doc.type = searchArgs.type
               /\ searchArgs.maxPrice # NoValue => doc.priceFor2 <= 2
               /\ searchArgs.minRating # NoValue => doc.rating >= 4

\* C33 (as claimed): the popular query returns only restaurants with rating >= 4.0,
\* of the city and cuisine when supplied, ordered by rating descending, and
\* restaurants with equal rating are ordered by their review count descending.
C33_PopularOrder ==
    (/\ searchResult.called
     /\ searchResult.firstStep = "popular"
     /\ ~searchResult.fellBack) =>
        LET list == searchResult.restaurants
            doc(k) == restaurantIndex[list[k]]
        IN /\ \A k \in 1..Len(list) :
                 /\ doc(k).rating >= PopularMinRating
                 /\ searchArgs.city # NoValue => doc(k).city = searchArgs.city
                 /\ searchArgs.cuisine # NoValue => doc(k).cuisine = searchArgs.cuisine
           /\ \A j, k \in 1..Len(list) : j < k =>
                 /\ doc(j).rating >= doc(k).rating
                 /\ doc(j).rating = doc(k).rating =>
                       doc(j).diningReviewCount >= doc(k).diningReviewCount

\* C40 (as claimed): the searchStrategy of a search result names the ladder step
\* that produced the returned restaurants: "semantic" or "location" only when the
\* list came from that step, and "popular" whenever it came from the popular
\* query, also when the popular fallback replaced an empty semantic or geo result.
C40_StrategyNamesProducingStep ==
    (searchResult.called /\ ~searchResult.threw /\ searchResult.restaurants # <<>>) =>
        searchResult.searchStrategy =
            (IF searchResult.fellBack THEN "popular" ELSE searchResult.firstStep)

\* C34: a tool result with success=false (an id that does not exist, a failed index
\* or store call inside the tool) is not fatal to the turn: the result is pushed as
\* the call's tool message and the loop goes on to the next call or the model; if
\* no model call and no tool invocation of the turn throws, the loop ends with the
\* model's answer and ran tools, not with the agent's apology and <<"error">>, and
\* that answer is the turn's reply unless a later step of the workflow throws.
C34_ToolFailureIsRecovered ==
    \A t \in Slots :
        (turn[t].toolFailed /\ ~turn[t].modelThrew /\ ~turn[t].toolThrew) =>
            /\ turn[t].answered # <<>>
            /\ turn[t].loopTools # <<>>
            /\ \/ turn[t].pc \in {"agent", "tool"}
               \/ /\ turn[t].agentAnswer \in Answers
                  /\ turn[t].toolsUsed = turn[t].loopTools
            /\ (turn[t].pc = "done" /\ turn[t].outcome = "ok") =>
                  turn[t].reply.content = turn[t].agentAnswer

\* C34's case: cancel_reservation was called with an id that is not stored, and the
\* turn ended with the model's answer
C34_Witness ==
    \E t \in Slots : /\ turn[t].pc = "done"
                     /\ turn[t].outcome = "ok"
                     /\ turn[t].toolFailed
                     /\ turn[t].loopTools = <<"cancel_reservation">>
                     /\ lastOp.op = "cancel"
                     /\ lastOp.was = "absent"
                     /\ turn[t].reply.content \in Answers

\* C35: after any sequence of completed create, cancel and delete operations the
\* reverse index agrees with the records: for every session S the set
\* users:S:reservations holds exactly the ids of the stored reservations whose
\* sessionId is S.
C35_IndexMatchesRecords ==
    \A s \in Sessions :
        sessionIndex[s] =
            {id \in ResIds : reservations[id] # NoRes /\ reservations[id].sessionId = s}

\* C35's case: a cancelled reservation was deleted while another reservation of
\* the session is still stored
C35_Witness ==
    /\ lastOp.op = "delete"
    /\ lastOp.was = "cancelled"
    /\ reservations[lastOp.id] = NoRes
    /\ \E s \in Sessions : sessionIndex[s] # {}

\* C36 (as claimed): when two turns of one session overlap, the transcript keeps
\* each turn's pair together: the user message a turn appended is immediately
\* followed by the assistant message of the same turn.
C36_PairStaysTogether ==
    \A t \in OverlapSlots :
        (turn[t].pc = "done" /\ turn[t].outcome = "ok") =>
            turn[t].asstAt = turn[t].userAt + 1

IsPrefix(a, b) == Len(a) <= Len(b) /\ SubSeq(b, 1, Len(a)) = a

\* C37 (as claimed): until the session is ended a chat transcript only grows by
\* appending, under any interleaving of concurrent turns and history reads of the
\* session, the first requests that create it included: every step leaves the
\* stored session in place and its earlier transcript a prefix of the later one.
C37_TranscriptOnlyGrows ==
    [][\A s \in Sessions :
          users[s] # NoUser =>
              /\ users'[s] # NoUser
              /\ IsPrefix(users[s].chat, users'[s].chat)]_vars

\* C38 (as claimed): when two cancel requests for the same confirmed reservation
\* run concurrently, exactly one of them succeeds and the other is rejected with
\* ALREADY_CANCELLED, under every interleaving.
C38_OneCancelWins ==
    \A c, d \in CancelReqs :
        (/\ c # d
         /\ cancels[c].pc = "done" /\ cancels[d].pc = "done"
         /\ cancels[c].id = cancels[d].id
         /\ cancels[c].wasConfirmed /\ cancels[d].wasConfirmed
         /\ restaurantExists(reservations[cancels[c].id].restaurantId)) =>
            \/ cancels[c].outcome = "none" /\ cancels[d].outcome = "ALREADY_CANCELLED"
            \/ cancels[d].outcome = "none" /\ cancels[c].outcome = "ALREADY_CANCELLED"

\* C39 (as claimed): every reservation that the listing of a session returns with
\* status confirmed can be cancelled: after any sequence of bookings, successful or
\* failed, cancelReservation with its id succeeds.
C39_ListedConfirmedCancels ==
    \A s \in Sessions : \A id \in getReservationsBySession(s) :
        reservations[id].status = "confirmed" =>
            cancelReservation(id, s).error = "none"
====
